---- MODULE Spec2Model ----
(***************************************************************************)
(* Model of the authentication backend in src/server.js: the in-memory OTP *)
(* registry `otps`, the `users` and `login_events` tables reached through  *)
(* src/db.js, and the four request handlers send-otp, signup, login and    *)
(* reset-password.  A handler is an async function: it runs atomically up  *)
(* to each `await`, and other handlers may run while it is suspended.  So  *)
(* every handler is modelled as one action per synchronous segment, with   *)
(* the suspended requests kept in the bag `inflight`.                      *)
(***************************************************************************)
EXTENDS Integers, Sequences, FiniteSets, Bags, TLC

VARIABLES
    otps,          \* server.js:22   set of entries [email, otp, expiresAt]
    users,         \* table users:   set of rows [id, email, password_hash]
    login_events,  \* table login_events: sequence of user ids
    now,           \* Date.now(), in milliseconds
    inflight,      \* bag of requests suspended at an await
    response,      \* what the last step sent with res.json(), or NoResponse
    spent,         \* history: identities whose current issuance has been
                   \* used by a signup / reset-password that succeeded
    received       \* history: how many requests the server has received

vars == <<otps, users, login_events, now, inflight, response, spent,
          received>>

----------------------------------------------------------------------------
(* Bounds of the model *)

\* how many requests may be suspended at an await at the same time
MaxInFlight == 2
\* how many times the clock advances
MaxTicks == 2
\* how many requests the server receives in a run
MaxRequests == 3

----------------------------------------------------------------------------
(* Program constants and input domains *)

SALT_ROUNDS == 10

\* 5 * 60 * 1000 of server.js:62
OTP_TTL_MS == 5 * 60 * 1000

\* the clock advances in steps of one expiry window, so that a check can
\* fall before, exactly at, and after expiresAt
ClockStep == OTP_TTL_MS

\* a falsy request field (absent or empty): `!email`
Missing == ""

Emails == {"a@x.com", "b@x.com"}

Passwords == {"pw1", "pw2"}

\* the two ends of the range Math.floor(100000 + Math.random() * 900000)
OtpNumbers == {100000, 999999}

\* bcrypt draws a random salt for every hash
Salts == {"s1"}

EmailInputs == Emails \cup {Missing}
PasswordInputs == Passwords \cup {Missing}

NoRecord == [email |-> Missing, otp |-> Missing, expiresAt |-> -1]
NoUser == [id |-> 0, email |-> Missing, password_hash |-> Missing]
NoResponse == [status |-> 0, message |-> ""]

----------------------------------------------------------------------------
(* Helpers *)

\* server.js:24-26
generateOtp(n) == ToString(n)

OtpInputs == {generateOtp(n) : n \in OtpNumbers} \cup {Missing}

\* otps[email]: the entry stored under the key, or undefined
OtpRecord(reg, email) ==
    IF \E e \in reg : e.email = email
    THEN CHOOSE e \in reg : e.email = email
    ELSE NoRecord

\* faulty variant: the new entry is added beside the old one
OtpStoreKeepsOld(reg, email, otp, expiresAt) ==
    reg \cup {[email |-> email, otp |-> otp, expiresAt |-> expiresAt]}

\* otps[email] = { otp, expiresAt }: assignment to a key replaces its value
OtpStore(reg, email, otp, expiresAt) ==
    {e \in reg : e.email # email}
        \cup {[email |-> email, otp |-> otp, expiresAt |-> expiresAt]}

\* faulty variant: the delete is missing
OtpDeleteNothing(reg, email) == reg

\* faulty variant: the whole registry is cleared
OtpDeleteAll(reg, email) == {}

\* delete otps[email]
OtpDelete(reg, email) == {e \in reg : e.email # email}

\* faulty variant: the submitted code is not compared
OtpGateAnyCode(reg, email, otp, t) ==
    LET record == OtpRecord(reg, email)
    IN  ~ (record = NoRecord \/ record.expiresAt < t)

\* faulty variant: the entry counts as expired already at expiresAt
OtpGateExpiresEarly(reg, email, otp, t) ==
    LET record == OtpRecord(reg, email)
    IN  ~ (record = NoRecord \/ record.otp # otp \/ record.expiresAt <= t)

\* the OTP gate of signup and reset-password:
\* !(!record || record.otp !== otp || record.expiresAt < Date.now())
OtpGate(reg, email, otp, t) ==
    LET record == OtpRecord(reg, email)
    IN  ~ (record = NoRecord \/ record.otp # otp \/ record.expiresAt < t)

\* faulty variant: the password is stored as it was typed
BcryptHashPlaintext(password, salt) == password

\* bcrypt.hash(password, SALT_ROUNDS) with the salt it drew
BcryptHash(password, salt) ==
    "$2b$" \o ToString(SALT_ROUNDS) \o "$" \o salt \o "/" \o password

\* faulty variant: every password is accepted
BcryptCompareAlways(password, hash) == TRUE

\* bcrypt.compare(password, hash): re-hash with the salt held in the hash
BcryptCompare(password, hash) ==
    \E salt \in Salts : hash = BcryptHash(password, salt)

\* getUserByEmail: select ... from users where email = ${email}
getUserByEmail(tbl, email) ==
    IF \E u \in tbl : u.email = email
    THEN CHOOSE u \in tbl : u.email = email
    ELSE NoUser

\* faulty variant: the table accepts a second row for an email
CanInsertUserAlways(tbl, email) == TRUE

\* insert into users (email, password_hash) values (...): email is unique
CanInsertUser(tbl, email) == \A u \in tbl : u.email # email

InsertUser(tbl, email, hash) ==
    tbl \cup {[id |-> Cardinality(tbl) + 1, email |-> email,
               password_hash |-> hash]}

\* faulty variant: the where clause is missing
UpdatePasswordHashEverywhere(tbl, id, hash) ==
    {[u EXCEPT !.password_hash = hash] : u \in tbl}

\* update users set password_hash = ${newHash} where id = ${user.id}
UpdatePasswordHash(tbl, id, hash) ==
    {IF u.id = id THEN [u EXCEPT !.password_hash = hash] ELSE u : u \in tbl}

Json(status, message) == [status |-> status, message |-> message]

JsonEmail(status, message, email) ==
    [status |-> status, message |-> message, email |-> email]

\* a handler suspended at an await, with the locals it resumes with; record
\* is the entry the OTP gate read (const record = otps[email])
Request(op, email, pc, password, hash, user, record) ==
    [op |-> op, email |-> email, pc |-> pc, password |-> password,
     hash |-> hash, user |-> user, record |-> record]

Suspend(bag, r) == bag (+) SetToBag({r})
Resume(bag, r) == bag (-) SetToBag({r})

Suspended == BagToSet(inflight)

HasRoom == BagCardinality(inflight) < MaxInFlight

\* a request arrives
Receive == received < MaxRequests /\ received' = received + 1

----------------------------------------------------------------------------
\* The registry lives in process memory and starts empty (server.js:22);
\* the tables live in the database and outlive the process, so the server
\* may start on an empty users table or on one that holds accounts.
InitialTables ==
    LET one == InsertUser({}, "b@x.com", BcryptHash("pw1", "s1"))
    IN  {one, InsertUser(one, "a@x.com", BcryptHash("pw2", "s1"))}

Init ==
    /\ otps = {}
    /\ users \in InitialTables
    /\ login_events = <<>>
    /\ now = 0
    /\ inflight = EmptyBag
    /\ response = NoResponse
    /\ spent = {}
    /\ received = 0

\* time passes
Tick ==
    /\ now < MaxTicks * ClockStep
    /\ now' = now + ClockStep
    /\ response' = NoResponse
    /\ UNCHANGED <<otps, users, login_events, inflight, spent, received>>

(* ---------- POST /api/send-otp ---------- *)

\* faulty variant: the entry is stored only once the email has been sent
SendOtpStoresAfterMail(email) ==
    /\ Receive
    /\ IF email = Missing
       THEN /\ response' = Json(400, "Email is required for OTP")
            /\ UNCHANGED <<otps, users, login_events, now, inflight, spent>>
       ELSE /\ \/ /\ \E n \in OtpNumbers :
                      otps' = OtpStore(otps, email, generateOtp(n),
                                       now + OTP_TTL_MS)
                  /\ spent' = spent \ {email}
                  /\ response' = Json(200, "OTP sent to your email")
               \/ /\ response' = Json(500, "Failed to send email OTP")
                  /\ UNCHANGED <<otps, spent>>
            /\ UNCHANGED <<users, login_events, now, inflight>>

\* server.js:52-73.  The entry is stored before sendOtpEmail is awaited
\* (mailer.js:12-21); the transport then answers or throws, and what runs
\* after the await only sends the reply and touches nothing shared, so the
\* reply is decided in the same step.
SendOtp(email) ==
    /\ Receive
    /\ IF email = Missing
       THEN /\ response' = Json(400, "Email is required for OTP")
            /\ UNCHANGED <<otps, users, login_events, now, inflight, spent>>
       ELSE /\ \E n \in OtpNumbers :
                 otps' = OtpStore(otps, email, generateOtp(n), now + OTP_TTL_MS)
            /\ spent' = spent \ {email}
            /\ \/ response' = Json(200, "OTP sent to your email")
               \/ response' = Json(500, "Failed to send email OTP")
            /\ UNCHANGED <<users, login_events, now, inflight>>

(* ---------- POST /api/signup ---------- *)

\* faulty variant: signup deletes the entry in the step that checks it
SignupConsumesAtGate(email, password, otp) ==
    /\ Receive
    /\ IF email = Missing \/ password = Missing \/ otp = Missing
       THEN /\ response' = Json(400, "Email, password and OTP are required")
            /\ UNCHANGED <<otps, users, login_events, now, inflight, spent>>
       ELSE IF ~ OtpGate(otps, email, otp, now)
       THEN /\ response' = Json(400, "Invalid or expired OTP")
            /\ UNCHANGED <<otps, users, login_events, now, inflight, spent>>
       ELSE /\ HasRoom
            /\ inflight' = Suspend(inflight,
                   Request("signup", email, "lookup", password, Missing, 0,
                           OtpRecord(otps, email)))
            /\ otps' = OtpDelete(otps, email)
            /\ response' = NoResponse
            /\ UNCHANGED <<users, login_events, now, spent>>

\* server.js:76-91, up to the await of getUserByEmail
Signup(email, password, otp) ==
    /\ Receive
    /\ IF email = Missing \/ password = Missing \/ otp = Missing
       THEN /\ response' = Json(400, "Email, password and OTP are required")
            /\ UNCHANGED <<otps, users, login_events, now, inflight, spent>>
       ELSE IF ~ OtpGate(otps, email, otp, now)
       THEN /\ response' = Json(400, "Invalid or expired OTP")
            /\ UNCHANGED <<otps, users, login_events, now, inflight, spent>>
       ELSE /\ HasRoom
            /\ inflight' = Suspend(inflight,
                   Request("signup", email, "lookup", password, Missing, 0,
                           OtpRecord(otps, email)))
            /\ response' = NoResponse
            /\ UNCHANGED <<otps, users, login_events, now, spent>>

\* server.js:91-98: the select runs; then the handler rejects a duplicate or
\* hashes the password (the hash touches nothing shared) and issues the insert
SignupLookup(r) ==
    /\ r \in Suspended /\ r.op = "signup" /\ r.pc = "lookup"
    /\ LET existing == getUserByEmail(users, r.email)
       IN  \/ /\ existing # NoUser
              /\ inflight' = Resume(inflight, r)
              /\ response' = Json(400, "User already exists, please login")
           \/ /\ existing = NoUser
              /\ \E salt \in Salts :
                   inflight' = Suspend(Resume(inflight, r),
                       Request("signup", r.email, "insert", r.password,
                               BcryptHash(r.password, salt), 0,
                           r.record))
              /\ response' = NoResponse
           \/ \* the select or bcrypt.hash throws: server.js:110-112
              /\ inflight' = Resume(inflight, r)
              /\ response' = Json(500, "Server error during signup")
    /\ UNCHANGED <<otps, users, login_events, now, spent, received>>

\* server.js:100-104: the database runs the insert, or refuses it
SignupInsert(r) ==
    /\ r \in Suspended /\ r.op = "signup" /\ r.pc = "insert"
    /\ \/ /\ CanInsertUser(users, r.email)
          /\ users' = InsertUser(users, r.email, r.hash)
          /\ inflight' = Suspend(Resume(inflight, r),
                 Request("signup", r.email, "finish", Missing, Missing, 0,
                           r.record))
          /\ response' = NoResponse
       \/ \* the insert throws: server.js:110-112
          /\ inflight' = Resume(inflight, r)
          /\ response' = Json(500, "Server error during signup")
          /\ UNCHANGED users
    /\ UNCHANGED <<otps, login_events, now, spent, received>>

\* server.js:106-109: the handler resumes after the insert
SignupFinish(r) ==
    /\ r \in Suspended /\ r.op = "signup" /\ r.pc = "finish"
    /\ otps' = OtpDelete(otps, r.email)
    /\ spent' = spent \cup {r.email}
    /\ inflight' = Resume(inflight, r)
    /\ response' = JsonEmail(200, "Signup successful", r.email)
    /\ UNCHANGED <<users, login_events, now, received>>

(* ---------- POST /api/login ---------- *)

\* faulty variant: login consumes the identity's OTP entry
LoginConsumesOtp(email, password) ==
    /\ Receive
    /\ IF email = Missing \/ password = Missing
       THEN /\ response' = Json(400, "Email and password are required")
            /\ UNCHANGED <<otps, users, login_events, now, inflight, spent>>
       ELSE /\ HasRoom
            /\ inflight' = Suspend(inflight,
                   Request("login", email, "lookup", password, Missing, 0,
                           NoRecord))
            /\ otps' = OtpDelete(otps, email)
            /\ response' = NoResponse
            /\ UNCHANGED <<users, login_events, now, spent>>

\* server.js:117-127, up to the await of getUserByEmail
Login(email, password) ==
    /\ Receive
    /\ IF email = Missing \/ password = Missing
       THEN /\ response' = Json(400, "Email and password are required")
            /\ UNCHANGED <<otps, users, login_events, now, inflight, spent>>
       ELSE /\ HasRoom
            /\ inflight' = Suspend(inflight,
                   Request("login", email, "lookup", password, Missing, 0,
                           NoRecord))
            /\ response' = NoResponse
            /\ UNCHANGED <<otps, users, login_events, now, spent>>

\* faulty variant: the login event is recorded before the password is compared
LoginLookupAuditsFirst(r) ==
    /\ r \in Suspended /\ r.op = "login" /\ r.pc = "lookup"
    /\ LET user == getUserByEmail(users, r.email)
       IN  \/ /\ user = NoUser
              /\ inflight' = Resume(inflight, r)
              /\ response' = Json(404, "User not found, please sign up")
              /\ UNCHANGED login_events
           \/ /\ user # NoUser
              /\ ~ BcryptCompare(r.password, user.password_hash)
              /\ inflight' = Resume(inflight, r)
              /\ login_events' = Append(login_events, user.id)
              /\ response' = Json(400, "Invalid password")
           \/ /\ user # NoUser
              /\ BcryptCompare(r.password, user.password_hash)
              /\ inflight' = Suspend(Resume(inflight, r),
                     Request("login", r.email, "insert", Missing, Missing,
                             user.id,
                           NoRecord))
              /\ response' = NoResponse
              /\ UNCHANGED login_events
           \/ /\ inflight' = Resume(inflight, r)
              /\ response' = Json(500, "Server error during login")
              /\ UNCHANGED login_events
    /\ UNCHANGED <<otps, users, now, spent, received>>

\* server.js:127-140: the select runs; then the handler compares the
\* password with the stored hash and issues the insert of the login event
LoginLookup(r) ==
    /\ r \in Suspended /\ r.op = "login" /\ r.pc = "lookup"
    /\ LET user == getUserByEmail(users, r.email)
       IN  \/ /\ user = NoUser
              /\ inflight' = Resume(inflight, r)
              /\ response' = Json(404, "User not found, please sign up")
           \/ /\ user # NoUser
              /\ ~ BcryptCompare(r.password, user.password_hash)
              /\ inflight' = Resume(inflight, r)
              /\ response' = Json(400, "Invalid password")
           \/ /\ user # NoUser
              /\ BcryptCompare(r.password, user.password_hash)
              /\ inflight' = Suspend(Resume(inflight, r),
                     Request("login", r.email, "insert", Missing, Missing,
                             user.id,
                           NoRecord))
              /\ response' = NoResponse
           \/ \* the select or bcrypt.compare throws: server.js:146-148
              /\ inflight' = Resume(inflight, r)
              /\ response' = Json(500, "Server error during login")
    /\ UNCHANGED <<otps, users, login_events, now, spent, received>>

\* faulty variant: a failing insert of the login event is swallowed, the
\* handler ends without answering
LoginInsertSwallowsError(r) ==
    /\ r \in Suspended /\ r.op = "login" /\ r.pc = "insert"
    /\ inflight' = Resume(inflight, r)
    /\ \/ /\ login_events' = Append(login_events, r.user)
          /\ response' = JsonEmail(200, "Login successful", r.email)
       \/ /\ response' = NoResponse
          /\ UNCHANGED login_events
    /\ UNCHANGED <<otps, users, now, spent, received>>

\* server.js:140-145: the database appends the login event and the handler
\* answers (the continuation touches nothing shared)
LoginInsert(r) ==
    /\ r \in Suspended /\ r.op = "login" /\ r.pc = "insert"
    /\ inflight' = Resume(inflight, r)
    /\ \/ /\ login_events' = Append(login_events, r.user)
          /\ response' = JsonEmail(200, "Login successful", r.email)
       \/ \* the insert throws: server.js:146-148
          /\ response' = Json(500, "Server error during login")
          /\ UNCHANGED login_events
    /\ UNCHANGED <<otps, users, now, spent, received>>

(* ---------- POST /api/reset-password ---------- *)

\* server.js:153-168, up to the await of getUserByEmail
ResetPassword(email, otp, newPassword) ==
    /\ Receive
    /\ IF email = Missing \/ otp = Missing \/ newPassword = Missing
       THEN /\ response' = Json(400, "Email, OTP and new password are required")
            /\ UNCHANGED <<otps, users, login_events, now, inflight, spent>>
       ELSE IF ~ OtpGate(otps, email, otp, now)
       THEN /\ response' = Json(400, "Invalid or expired OTP")
            /\ UNCHANGED <<otps, users, login_events, now, inflight, spent>>
       ELSE /\ HasRoom
            /\ inflight' = Suspend(inflight,
                   Request("reset", email, "lookup", newPassword, Missing, 0,
                           OtpRecord(otps, email)))
            /\ response' = NoResponse
            /\ UNCHANGED <<otps, users, login_events, now, spent>>

\* server.js:168-174: the select runs; then the handler hashes the new
\* password and issues the update
ResetLookup(r) ==
    /\ r \in Suspended /\ r.op = "reset" /\ r.pc = "lookup"
    /\ LET user == getUserByEmail(users, r.email)
       IN  \/ /\ user = NoUser
              /\ inflight' = Resume(inflight, r)
              /\ response' = Json(404, "User not found")
           \/ /\ user # NoUser
              /\ \E salt \in Salts :
                   inflight' = Suspend(Resume(inflight, r),
                       Request("reset", r.email, "update", r.password,
                               BcryptHash(r.password, salt), user.id,
                           r.record))
              /\ response' = NoResponse
           \/ \* the select or bcrypt.hash throws: server.js:182-184
              /\ inflight' = Resume(inflight, r)
              /\ response' = Json(500, "Server error during reset")
    /\ UNCHANGED <<otps, users, login_events, now, spent, received>>

\* server.js:174-178: the database runs the update, or fails
ResetUpdate(r) ==
    /\ r \in Suspended /\ r.op = "reset" /\ r.pc = "update"
    /\ \/ /\ users' = UpdatePasswordHash(users, r.user, r.hash)
          /\ inflight' = Suspend(Resume(inflight, r),
                 Request("reset", r.email, "finish", Missing, Missing, 0,
                           r.record))
          /\ response' = NoResponse
       \/ \* the update throws: server.js:182-184
          /\ inflight' = Resume(inflight, r)
          /\ response' = Json(500, "Server error during reset")
          /\ UNCHANGED users
    /\ UNCHANGED <<otps, login_events, now, spent, received>>

\* server.js:180-181: the handler resumes after the update
ResetFinish(r) ==
    /\ r \in Suspended /\ r.op = "reset" /\ r.pc = "finish"
    /\ otps' = OtpDelete(otps, r.email)
    /\ spent' = spent \cup {r.email}
    /\ inflight' = Resume(inflight, r)
    /\ response' = Json(200, "Password reset successful")
    /\ UNCHANGED <<users, login_events, now, received>>

----------------------------------------------------------------------------
\* the request bodies the clients send: every body with all fields present,
\* and for each field one body that lacks it (the handlers answer a body
\* that lacks a field before they read anything else)
OneMissing(fields) ==
    {[i \in 1..Len(fields) |-> IF i = k THEN Missing ELSE fields[i]] :
        k \in 1..Len(fields)}

GatedBodies ==
    (Emails \X Passwords \X (OtpInputs \ {Missing}))
        \cup OneMissing(<<"a@x.com", "pw1", generateOtp(100000)>>)

LoginBodies == (Emails \X Passwords) \cup OneMissing(<<"a@x.com", "pw1">>)

Next ==
    \/ Tick
    \/ \E email \in EmailInputs : SendOtp(email)
    \/ \E q \in GatedBodies : Signup(q[1], q[2], q[3])
    \/ \E r \in Suspended : SignupLookup(r)
    \/ \E r \in Suspended : SignupInsert(r)
    \/ \E r \in Suspended : SignupFinish(r)
    \/ \E q \in LoginBodies : Login(q[1], q[2])
    \/ \E r \in Suspended : LoginLookup(r)
    \/ \E r \in Suspended : LoginInsert(r)
    \/ \E q \in GatedBodies : ResetPassword(q[1], q[3], q[2])
    \/ \E r \in Suspended : ResetLookup(r)
    \/ \E r \in Suspended : ResetUpdate(r)
    \/ \E r \in Suspended : ResetFinish(r)

Spec == Init /\ [][Next]_vars

\* a suspended handler resumes: the call it awaits has returned or thrown
Resumption ==
    \E r \in Suspended :
       \/ SignupLookup(r) \/ SignupInsert(r) \/ SignupFinish(r)
       \/ LoginLookup(r) \/ LoginInsert(r)
       \/ ResetLookup(r) \/ ResetUpdate(r) \/ ResetFinish(r)

\* the server starts on the users table that holds one account and lacks
\* the other: from it every branch of every handler is taken
LiveInit == Init /\ Cardinality(users) = 1

\* every awaited storage, hashing and email call eventually returns or
\* fails, and the event loop then runs the continuation of the handler
LiveSpec == LiveInit /\ [][Next]_vars /\ WF_vars(Resumption)

----------------------------------------------------------------------------
(* Vocabulary of the properties *)

GatedOps == {"signup", "reset"}

InvalidOtp == Json(400, "Invalid or expired OTP")

\* how many signup / reset-password requests for the identity have passed
\* the OTP gate and wait for their lookup
AtLookup(bag, email) ==
    LET waiting == {r \in BagToSet(bag) :
                      r.op \in GatedOps /\ r.pc = "lookup" /\ r.email = email}
    IN  BagCardinality([r \in waiting |-> bag[r]])

\* this step admitted a signup / reset-password for the identity: its
\* submitted code passed the OTP gate
PassedGate(email) == AtLookup(inflight', email) > AtLookup(inflight, email)

\* this step resumed the suspended request r and removed or advanced it
Resumed(r) == r \in Suspended /\ CopiesIn(r, inflight') < CopiesIn(r, inflight)

\* the inputs of signup and reset-password with every field present
GatedInputs == Emails \X Passwords \X (OtpInputs \ {Missing})

\* this step is the synchronous part of a signup or a reset-password
\* request with the fields q = <<email, password, otp>>
GatedRequest(q) == Signup(q[1], q[2], q[3]) \/ ResetPassword(q[1], q[3], q[2])

----------------------------------------------------------------------------
(* C1 *)

C3_MismatchLeavesEntry ==
    [] \A q \in GatedInputs :
         LET record == OtpRecord(otps, q[1])
         IN  (record # NoRecord /\ record.otp # q[3]) =>
                ~ ENABLED (/\ GatedRequest(q)
                           /\ ~ (/\ response' = InvalidOtp
                                 /\ otps' = otps
                                 /\ record \in otps'
                                 /\ ~ PassedGate(q[1])
                                 /\ OtpGate(otps', q[1], record.otp, now')
                                      = (record.expiresAt >= now)))

\* a request with every field present was rejected at the gate although both
\* identities hold an unexpired entry: its code differs from the stored one
C3_Witness ==
    /\ response = InvalidOtp
    /\ received = 3
    /\ \A email \in Emails : OtpRecord(otps, email).expiresAt >= now

(* C4 *)

\* C4: a signup or reset-password passes the OTP gate if and only if the
\* registry holds an entry for the identity with the submitted code and
\* now <= expiresAt; otherwise it is rejected as invalid/expired OTP.  In no
\* state can a signup or a reset-password request with every field present
\* take a step that departs from this.  Every entry send-otp stores expires
\* exactly 5 minutes after the issuance.
C4_GateIffLiveEntry ==
    /\ [] \A q \in GatedInputs :
            ~ ENABLED (/\ GatedRequest(q)
                       /\ LET live == \E e \in otps :
                                       /\ e.email = q[1]
                                       /\ e.otp = q[3]
                                       /\ now <= e.expiresAt
                          IN  ~ (/\ live <=> PassedGate(q[1])
                                 /\ ~ live <=> response' = InvalidOtp))
    /\ [][\A e \in otps' \ otps : e.expiresAt = now + 300000]_vars

\* a request passed the gate at exactly expiresAt, while the other identity's
\* entry has expired
C4_Witness ==
    /\ \E r \in Suspended :
         /\ r.op \in GatedOps /\ r.pc = "lookup"
         /\ OtpRecord(otps, r.email).expiresAt = now
    /\ \E e \in otps : e.expiresAt < now

(* C5 *)

Conflict == Json(400, "User already exists, please login")

\* C5: a signup whose insert runs adds exactly one row, for its identity,
\* whose stored credential is a bcrypt hash that verifies the submitted
\* password and is not the password itself, and nothing but such an insert
\* adds a row; a signup whose lookup finds an account for its identity is
\* rejected as 'User already exists' (or, when the lookup itself fails, as
\* server error), never reaches the insert, and leaves the users table as
\* it was.
C5_SignupCreatesOneHashedAccount ==
    [][ /\ \A r \in Suspended :
             (r.op = "signup" /\ r.pc = "insert" /\ Resumed(r)
                 /\ response' = NoResponse) =>
                \E row \in users' :
                   /\ row \notin users
                   /\ users' = users \cup {row}
                   /\ row.email = r.email
                   /\ row.password_hash # r.password
                   /\ \E salt \in Salts :
                        row.password_hash = BcryptHash(r.password, salt)
        /\ Cardinality(users') # Cardinality(users) =>
             /\ Cardinality(users') = Cardinality(users) + 1
             /\ \E r \in Suspended :
                  r.op = "signup" /\ r.pc = "insert" /\ Resumed(r)
        /\ \A r \in Suspended :
             (r.op = "signup" /\ r.pc = "lookup" /\ Resumed(r)
                 /\ \E u \in users : u.email = r.email) =>
                /\ users' = users
                /\ response' \in {Conflict, Json(500, "Server error during signup")}
      ]_vars

\* a signup created the account of a@x.com with a hashed credential and
\* answered with success
C5_Witness ==
    /\ response = JsonEmail(200, "Signup successful", "a@x.com")
    /\ \E u \in users :
         u.email = "a@x.com" /\ u.password_hash = BcryptHash("pw1", "s1")
    /\ Cardinality(users) = 2

(* C6 *)

\* C6: when the update of a reset-password with new password p runs, the
\* stored credential of its identity becomes a hash that verifies p and no
\* other password (so a login with p passes the password check and a login
\* with a different old password does not), and no other row of the users
\* table changes.
C6_ResetStoresNewHash ==
    [][ \A r \in Suspended :
          (r.op = "reset" /\ r.pc = "update" /\ Resumed(r)
              /\ response' = NoResponse) =>
             LET row == getUserByEmail(users', r.email)
             IN  /\ row # NoUser
                 /\ \E salt \in Salts :
                      row.password_hash = BcryptHash(r.password, salt)
                 /\ BcryptCompare(r.password, row.password_hash)
                 /\ \A p \in Passwords \ {r.password} :
                      ~ BcryptCompare(p, row.password_hash)
                 /\ \A u \in users : u.email # r.email => u \in users'
                 /\ Cardinality(users') = Cardinality(users)
      ]_vars

\* b@x.com, whose password was pw1, reset it to pw2 while a@x.com holds an
\* account, and then logged in with pw2
C6_Witness ==
    /\ response = JsonEmail(200, "Login successful", "b@x.com")
    /\ getUserByEmail(users, "b@x.com").password_hash = BcryptHash("pw2", "s1")
    /\ getUserByEmail(users, "a@x.com") # NoUser

(* C7 *)

LoginOk(email) == JsonEmail(200, "Login successful", email)
LoginError == Json(500, "Server error during login")

\* C7: a login appends a login event if and only if it reports success.  The
\* login_events table changes only in a step that answers 'Login successful',
\* and that step appends exactly one event, for the account of the request;
\* a login whose password the stored hash does not verify is answered
\* 'Invalid password' (400), one for an identity with no account is answered
\* 'User not found, please sign up' (404), and neither appends an event.
C7_LoginAuditsIffSuccess ==
    [][ /\ login_events' # login_events <=>
             (response'.status = 200 /\ response'.message = "Login successful")
        /\ login_events' # login_events =>
             \E r \in Suspended :
                /\ r.op = "login" /\ r.pc = "insert" /\ Resumed(r)
                /\ response' = LoginOk(r.email)
                /\ login_events' = Append(login_events, r.user)
                /\ \E u \in users : u.id = r.user /\ u.email = r.email
        /\ \A r \in Suspended :
             (r.op = "login" /\ r.pc = "lookup" /\ Resumed(r)) =>
                LET known == \E u \in users : u.email = r.email
                    right == \E u \in users, salt \in Salts :
                                /\ u.email = r.email
                                /\ u.password_hash = BcryptHash(r.password, salt)
                IN  /\ login_events' = login_events
                    /\ ~ known => response' \in
                          {Json(404, "User not found, please sign up"), LoginError}
                    /\ (known /\ ~ right) => response' \in
                          {Json(400, "Invalid password"), LoginError}
                    /\ right => response' \in {NoResponse, LoginError}
      ]_vars

\* a login with the right password was answered with success and the table
\* holds exactly its one event
C7_Witness ==
    /\ response = LoginOk("b@x.com")
    /\ login_events = <<getUserByEmail(users, "b@x.com").id>>

(* C8 *)

Storage == <<users, login_events>>

MutationStages == {"insert", "update"}

AtMutation(bag) ==
    LET waiting == {r \in BagToSet(bag) : r.pc \in MutationStages}
    IN  BagCardinality([r \in waiting |-> bag[r]])

\* C8: a request mutates storage at most once and only after its checks.  The
\* synchronous part of a request (validation and OTP gate), the lookup step
\* and the step after the mutation leave users and login_events unchanged;
\* storage changes only in the step in which one request that passed its
\* checks runs its single insert or update, that step changes one table,
\* and the request then leaves the mutation stage for good; every step that
\* answers 400 or 404 leaves storage unchanged.
C8_OneMutationAfterGates ==
    [][ /\ response'.status \in {400, 404} => Storage' = Storage
        /\ received' # received => Storage' = Storage
        /\ \A r \in Suspended :
             (Resumed(r) /\ r.pc \notin MutationStages) => Storage' = Storage
        /\ Storage' # Storage =>
             /\ \E r \in Suspended : r.pc \in MutationStages /\ Resumed(r)
             /\ AtMutation(inflight') = AtMutation(inflight) - 1
             /\ users' = users \/ login_events' = login_events
      ]_vars

\* a login with a wrong password was rejected and no event was recorded
C8_Witness ==
    /\ response = Json(400, "Invalid password")
    /\ login_events = <<>>
    /\ users \in InitialTables

(* C9 *)

OtpSent == Json(200, "OTP sent to your email")

\* C9: the registry never holds two entries for one identity, and issuance
\* replaces.  After send-otp for an identity the registry holds exactly one
\* entry for it, with the new code and expiresAt = now + 5 minutes; an
\* earlier code for it, when different, no longer passes the gate; the
\* entries of all other identities are as before.
C9_OneEntryPerIdentity ==
    /\ [](\A e1 \in otps, e2 \in otps : e1.email = e2.email => e1 = e2)
    /\ [][ \A email \in Emails :
             (received' # received /\ SendOtp(email)) =>
                LET old == OtpRecord(otps, email)
                    new == OtpRecord(otps', email)
                IN  /\ {e \in otps' : e.email = email} = {new}
                    /\ new.expiresAt = now + 300000
                    /\ {e \in otps' : e.email # email}
                         = {e \in otps : e.email # email}
                    /\ (old # NoRecord /\ old.otp # new.otp) =>
                         /\ ~ OtpGate(otps', email, old.otp, now')
                         /\ ~ \E e \in otps' : e.email = email /\ e.otp = old.otp
         ]_vars

\* a@x.com was issued a code, a request passed the gate with it and is still
\* suspended, and a second issuance has replaced the entry
C9_Witness ==
    /\ received = 3
    /\ response = OtpSent
    /\ \E r \in Suspended :
         r.op \in GatedOps /\ r.pc = "lookup" /\ r.email = "a@x.com"
    /\ \E e \in otps : otps = {e} /\ e.email = "a@x.com" /\ e.otp = "999999"

(* C10 *)

\* what the lookup step of a login answers, from the users table and the
\* request alone
LoginVerdict(tbl, email, password) ==
    IF ~ \E u \in tbl : u.email = email
    THEN Json(404, "User not found, please sign up")
    ELSE IF ~ \E u \in tbl, salt \in Salts :
                 u.email = email /\ u.password_hash = BcryptHash(password, salt)
    THEN Json(400, "Invalid password")
    ELSE NoResponse

\* C10: login is password-only.  No step of a login request changes the OTP
\* registry, and what a login answers is determined by the request and the
\* users table alone (up to a failure of the database or of bcrypt), so it
\* is the same whatever the registry holds.
C10_LoginIgnoresRegistry ==
    [][ /\ \A email \in EmailInputs, password \in PasswordInputs :
             (received' # received /\ Login(email, password)) =>
                /\ otps' = otps
                /\ response' = IF email = Missing \/ password = Missing
                               THEN Json(400, "Email and password are required")
                               ELSE NoResponse
        /\ \A r \in Suspended :
             (r.op = "login" /\ Resumed(r)) =>
                /\ otps' = otps
                /\ r.pc = "lookup" => response' \in
                      {LoginVerdict(users, r.email, r.password), LoginError}
                /\ r.pc = "insert" => response' \in {LoginOk(r.email), LoginError}
      ]_vars

\* a login succeeded while the registry holds a live entry for its identity
C10_Witness ==
    /\ response = LoginOk("b@x.com")
    /\ OtpRecord(otps, "b@x.com") # NoRecord
    /\ OtpRecord(otps, "b@x.com").expiresAt >= now

(* C11 *)

\* how many signup / reset-password requests for the identity have passed
\* the OTP gate and have not answered yet
InFlightGated(bag, email) ==
    LET running == {r \in BagToSet(bag) : r.op \in GatedOps /\ r.email = email}
    IN  BagCardinality([r \in running |-> bag[r]])

\* C11: the OTP check and the deletion of the entry are not atomic.  While a
\* signup or reset-password that has passed the gate is still suspended at
\* one of its awaits, a further signup and a further reset-password for the
\* same identity presenting a code the registry still accepts pass the gate
\* too (as long as the server takes another request), and their check
\* leaves the entry where it is for the next one.
C11_CheckThenDeleteNotAtomic ==
    [] \A q \in GatedInputs :
         (/\ InFlightGated(inflight, q[1]) >= 1
          /\ OtpGate(otps, q[1], q[3], now)
          /\ HasRoom /\ received < MaxRequests) =>
            /\ ENABLED (/\ Signup(q[1], q[2], q[3])
                        /\ PassedGate(q[1]) /\ otps' = otps)
            /\ ENABLED (/\ ResetPassword(q[1], q[3], q[2])
                        /\ PassedGate(q[1]) /\ otps' = otps)

\* one code was issued for an identity (the only request besides the two),
\* and two requests for that identity have passed the gate on that one entry
\* and are both suspended, the entry still in the registry
C11_Witness ==
    /\ received = 3
    /\ \E e \in Emails :
         /\ InFlightGated(inflight, e) = 2
         /\ OtpRecord(otps, e) # NoRecord
         /\ \A r \in Suspended : r.record = OtpRecord(otps, e)

(* C12 *)

\* C12: a successful signup or reset-password deletes only the entry it
\* verified.  When the request resumes after its storage mutation and the
\* registry holds, for its identity, another entry than the one its gate
\* read (send-otp has issued a fresh code in the meantime), the step that
\* answers with success leaves that entry in the registry, where it passes
\* the gate exactly as before.
C12_DeletesOnlyVerifiedEntry ==
    [][ \A r \in Suspended :
          LET current == OtpRecord(otps, r.email)
          IN  (/\ r.op \in GatedOps /\ r.pc = "finish" /\ Resumed(r)
               /\ current # NoRecord /\ current # r.record) =>
                 /\ OtpRecord(otps', r.email) = current
                 /\ OtpGate(otps', r.email, current.otp, now')
                      = OtpGate(otps, r.email, current.otp, now)
      ]_vars

\* a request waits to resume after its storage mutation while the registry
\* holds, for its identity, a fresh entry that its gate never read
C12_Witness ==
    \E r \in Suspended :
      /\ r.op \in GatedOps /\ r.pc = "finish"
      /\ OtpRecord(otps, r.email) \notin {NoRecord, r.record}

(* C13 *)

\* how many signup requests for the identity are suspended at the stage
SignupsAt(bag, stage, email) ==
    LET there == {r \in BagToSet(bag) :
                    r.op = "signup" /\ r.pc = stage /\ r.email = email}
    IN  BagCardinality([r \in there |-> bag[r]])

OneAccountPerIdentity ==
    \A u, v \in users : u.email = v.email => u = v

\* C13: storage holds at most one account per identity in every reachable
\* state, also when concurrent signups for one identity have all passed the
\* existence lookup before any of them inserts.  Accounts are never removed;
\* an insert for an identity that has an account by then is refused and
\* answered with the server error, storage unchanged; so at most one signup
\* per identity ever gets past its insert, and only a signup that did
\* reports 'Signup successful'.
C13_OneAccountPerIdentity ==
    /\ [] /\ OneAccountPerIdentity
          /\ \A e \in Emails :
               /\ SignupsAt(inflight, "finish", e) <= 1
               /\ SignupsAt(inflight, "finish", e) = 1 =>
                     getUserByEmail(users, e) # NoUser
    /\ [][ /\ \A u \in users : \E v \in users' : v.id = u.id /\ v.email = u.email
           /\ \A r \in Suspended :
                (r.op = "signup" /\ r.pc = "insert" /\ Resumed(r)) =>
                   IF getUserByEmail(users, r.email) # NoUser
                   THEN /\ users' = users
                        /\ response' = Json(500, "Server error during signup")
                   ELSE \/ users' = users
                           /\ response' = Json(500, "Server error during signup")
                        \/ /\ Cardinality(users') = Cardinality(users) + 1
                           /\ response' = NoResponse
                           /\ SignupsAt(inflight', "finish", r.email) = 1
           /\ \A e \in Emails :
                response' = JsonEmail(200, "Signup successful", e) =>
                   /\ SignupsAt(inflight, "finish", e) = 1
                   /\ SignupsAt(inflight', "finish", e) = 0
         ]_vars

\* two signups for one new identity have both passed the existence lookup
\* and neither has inserted yet
C13_Witness ==
    \E e \in Emails :
      /\ SignupsAt(inflight, "insert", e) = 2
      /\ getUserByEmail(users, e) = NoUser

(* C14 *)

MailFailed == Json(500, "Failed to send email OTP")

\* C14: send-otp stores the entry before it dispatches the email.  Whether
\* the transport then delivers or fails (and it may fail at any issuance),
\* the step of a send-otp with an email leaves the registry with the new
\* entry in the place of the identity's previous one, everything else as
\* before, and the new code passes the OTP gate from then until expiresAt
\* and no longer; the reply is the failure (500) when the transport failed.
\* A send-otp without an email answers 400 and leaves the registry as it
\* was.
C14_StoredBeforeMail ==
    /\ [] \A email \in Emails :
            received < MaxRequests =>
               ENABLED (SendOtp(email) /\ response' = MailFailed)
    /\ [][ \A email \in EmailInputs :
             (received' # received /\ SendOtp(email)) =>
                IF email = Missing
                THEN /\ response' = Json(400, "Email is required for OTP")
                     /\ otps' = otps
                ELSE LET stored == OtpRecord(otps', email)
                     IN  /\ response' \in {OtpSent, MailFailed}
                         /\ stored.otp \in {generateOtp(n) : n \in OtpNumbers}
                         /\ stored.expiresAt = now + OTP_TTL_MS
                         /\ otps' = {e \in otps : e.email # email} \cup {stored}
                         /\ \A d \in {0, OTP_TTL_MS, OTP_TTL_MS + 1} :
                              OtpGate(otps', email, stored.otp, now + d)
                                 = (d <= OTP_TTL_MS)
         ]_vars

\* the transport failed for an issuance that has replaced the entry a
\* suspended request had verified: the registry holds the undelivered code
C14_Witness ==
    /\ response = MailFailed
    /\ \E r \in Suspended :
         /\ r.op \in GatedOps
         /\ OtpRecord(otps, r.email) \notin {NoRecord, r.record}
         /\ OtpGate(otps, r.email, OtpRecord(otps, r.email).otp, now)

(* C15 *)

\* the generic replies to a failure of a collaborator
ServerErrors ==
    {MailFailed, Json(500, "Server error during signup"),
     LoginError, Json(500, "Server error during reset")}

InFlight(bag) == BagCardinality(bag)

\* C15: every request gets exactly one response.  A request is answered
\* either in the step in which it arrives or, after it was suspended at an
\* await, in the one step that takes it out of the suspended handlers; a
\* step answers at most one request, a handler that stays suspended has not
\* answered, and none leaves without answering; at each await the
\* collaborator may fail, and the failure is answered with the generic
\* server error of the operation (every 500 is one of these); and provided
\* the awaited calls return or fail, the suspended handlers all get to
\* their answer: the server is again and again without a pending request.
C15_ExactlyOneResponse ==
    /\ [][ /\ received' # received =>
                \/ response' # NoResponse /\ inflight' = inflight
                \/ response' = NoResponse /\ InFlight(inflight') = InFlight(inflight) + 1
           /\ received' = received =>
                \/ response' # NoResponse /\ InFlight(inflight') = InFlight(inflight) - 1
                \/ response' = NoResponse /\ InFlight(inflight') = InFlight(inflight)
           /\ response'.status = 500 => response' \in ServerErrors
         ]_vars
    /\ [] \A r \in Suspended :
            r.pc \in {"lookup", "insert", "update"} =>
               ENABLED (/\ Resumption /\ Resumed(r)
                        /\ InFlight(inflight') = InFlight(inflight) - 1
                        /\ response'.status = 500)
    /\ []<>(inflight = EmptyBag)

\* the database failed under a suspended handler, which answered with the
\* generic server error, and no request is pending
C15_Witness ==
    /\ response \in ServerErrors \ {MailFailed}
    /\ inflight = EmptyBag
    /\ received = 3

====
